---- MODULE Spec2Model ----
(***************************************************************************)
(* Model of the etmam-report pipeline: analysis.py (text canonicalizer,    *)
(* field classifier, record pipeline, aggregator) and ppt_fill.py (admin   *)
(* name matcher).                                                          *)
(*                                                                         *)
(* Strings are sequences of characters, one TLA+ string per character.     *)
(* Arabic letters are written in Buckwalter transliteration:               *)
(*   hamza-above alef ">", hamza-below alef "<", madda alef "|",           *)
(*   bare alef "A", alef maqsura "Y", ya "y", ta marbuta "p", ha "h",      *)
(*   and b t v j H x d * r z s $ S D T Z E g f q k l m n w for the rest.   *)
(* A Latin letter c is written "Lc" ("LU" is U, "Lu" is u).                *)
(* " " is the space, "\t" stands for every other whitespace character.     *)
(***************************************************************************)
EXTENDS Integers, Sequences, FiniteSets, TLC

VARIABLES
    norm_in,    \* the value handed to _norm_ar
    norm_out,   \* the results of applying _norm_ar once, then again
    xls,        \* the uploaded sheet: its columns and its rows
    closed_ts,  \* the report reference timestamp, CLOSED_DT
    pc,         \* where the run of app.py stands
    excel_out,  \* what build computed
    ppt_out,    \* what get_pivots_for_ppt returned
    admin_in_slide,  \* the label of a template row
    all_admins,      \* the unit labels of a pivot, in index order
    match_done,      \* whether _match_admin_indices has returned
    matches,         \* the list it returned
    raw_status,      \* a raw status string
    status_out,      \* <<canon_status(raw_status)>> once it has been called
    main_table,      \* the main table of the template: header texts, unit-column texts
    slide_out        \* what _fill_main_table wrote and returned

vars == <<norm_in, norm_out, xls, closed_ts, pc, excel_out, ppt_out,
          admin_in_slide, all_admins, match_done, matches,
          raw_status, status_out, main_table, slide_out>>

----------------------------------------------------------------------------
(* Python str primitives *)

\* a local assignment x = v followed by F(x): v is computed once
Bind(v, F(_)) == CHOOSE r \in {F(x) : x \in {v}} : TRUE

\* str.isspace(): the characters str.strip() removes and \s matches
IsSpace(c) == c \in {" ", "\t"}

\* the first position from i on that holds no whitespace (Len(s) + 1 if none)
RECURSIVE skip_ws(_, _)
skip_ws(s, i) == IF i <= Len(s) /\ IsSpace(s[i]) THEN skip_ws(s, i + 1) ELSE i

\* the last position up to i that holds no whitespace (0 if none)
RECURSIVE skip_ws_back(_, _)
skip_ws_back(s, i) == IF i >= 1 /\ IsSpace(s[i]) THEN skip_ws_back(s, i - 1) ELSE i

\* str.strip()
strip(s) == SubSeq(s, skip_ws(s, 1), skip_ws_back(s, Len(s)))

\* str.replace(old, new) from position i on: leftmost, non-overlapping occurrences
RECURSIVE replace_from(_, _, _, _)
replace_from(s, i, old, new) ==
    IF i + Len(old) - 1 > Len(s) THEN SubSeq(s, i, Len(s))
    ELSE IF SubSeq(s, i, i + Len(old) - 1) = old
         THEN new \o replace_from(s, i + Len(old), old, new)
         ELSE <<s[i]>> \o replace_from(s, i + 1, old, new)

\* str.replace(old, new)
replace(s, old, new) == replace_from(s, 1, old, new)

\* s.replace(a1, b1).replace(a2, b2)... for the pairs <<a, b>> in order
RECURSIVE replace_chain(_, _)
replace_chain(s, pairs) ==
    IF pairs = <<>> THEN s
    ELSE Bind(replace(s, pairs[1][1], pairs[1][2]),
              LAMBDA r : replace_chain(r, Tail(pairs)))

\* re.sub(r"\s+", " ", s) from position i on
RECURSIVE sub_ws_from(_, _)
sub_ws_from(s, i) ==
    IF i > Len(s) THEN <<>>
    ELSE IF IsSpace(s[i]) THEN <<" ">> \o sub_ws_from(s, skip_ws(s, i))
         ELSE <<s[i]>> \o sub_ws_from(s, i + 1)

\* re.sub(r"\s+", " ", s)
sub_ws(s) == sub_ws_from(s, 1)

\* old in s
Contains(s, old) ==
    \E i \in 1..(Len(s) - Len(old) + 1) : SubSeq(s, i, i + Len(old) - 1) = old

----------------------------------------------------------------------------
(* Text canonicalizer *)

\* what the five single-letter replace calls of _norm_ar make of one character
fold_char(c) ==
    CASE c = ">" -> "A"
      [] c = "<" -> "A"
      [] c = "|" -> "A"
      [] c = "Y" -> "y"
      [] c = "p" -> "h"
      [] OTHER -> c

\* the letter folding of _norm_ar
fold_letters(s) == [i \in 1..Len(s) |-> fold_char(s[i])]

\* the dash spacing of _norm_ar
fix_dash(s) == replace_chain(s, << <<<<" ", "-">>, <<"-">>>>, <<<<"-", " ">>, <<"-">>>> >>)

\* _norm_ar with the dash spacing done before the whitespace runs are collapsed
norm_str_dash_first(s) ==
    Bind(strip(s), LAMBDA stripped :
    Bind(fold_letters(stripped), LAMBDA folded :
    Bind(fix_dash(folded), LAMBDA dashed : sub_ws(dashed))))

\* _norm_ar on a str
norm_str(s) ==
    Bind(strip(s), LAMBDA stripped :
    Bind(fold_letters(stripped), LAMBDA folded :
    Bind(sub_ws(folded), LAMBDA collapsed : fix_dash(collapsed))))

\* a Python value: a str (its characters in v) or anything else
Str(s) == [isstr |-> TRUE, v |-> s]
NotStr == [isstr |-> FALSE, v |-> <<>>]

\* _norm_ar
_norm_ar(x) == IF ~x.isstr THEN <<>> ELSE norm_str(x.v)

----------------------------------------------------------------------------
(* Module constants of analysis.py *)

COL_ID == "COL_ID"
COL_ADMIN == "COL_ADMIN"
COL_STATUS == "COL_STATUS"
COL_SOURCE == "COL_SOURCE"
COL_CREATED == "COL_CREATED"
COL_CLOSED == "COL_CLOSED"
COL_ELAPSED == "COL_ELAPSED"
COL_HOURS == "COL_HOURS"
COL_SLA == "COL_SLA"
NEW_CLASS_COL == "NEW_CLASS_COL"

ST_WAIT_CONTRACTOR ==   \* AntZAr AlAstjAbp - mqAwl
    <<"A", "n", "t", "Z", "A", "r", " ", "A", "l", "A", "s", "t", "j", "A", "b", "p",
      " ", "-", " ", "m", "q", "A", "w", "l">>
ST_WAIT_INSPECTOR ==    \* AntZAr AlAstjAbp - mrAqb
    <<"A", "n", "t", "Z", "A", "r", " ", "A", "l", "A", "s", "t", "j", "A", "b", "p",
      " ", "-", " ", "m", "r", "A", "q", "b">>
ST_WAIT_SUPERVISOR ==   \* AntZAr AlAstjAbp - m$rf
    <<"A", "n", "t", "Z", "A", "r", " ", "A", "l", "A", "s", "t", "j", "A", "b", "p",
      " ", "-", " ", "m", "$", "r", "f">>
ST_PROG_INSPECTOR ==    \* qyd Altnfy* - mrAqb
    <<"q", "y", "d", " ", "A", "l", "t", "n", "f", "y", "*", " ", "-", " ",
      "m", "r", "A", "q", "b">>
ST_PROG_CONTRACTOR ==   \* qyd Altnfy* - mqAwl
    <<"q", "y", "d", " ", "A", "l", "t", "n", "f", "y", "*", " ", "-", " ",
      "m", "q", "A", "w", "l">>
ST_REOPENED ==          \* mElq - AEAdp ftH
    <<"m", "E", "l", "q", " ", "-", " ", "A", "E", "A", "d", "p", " ", "f", "t", "H">>

STATUS_CANON ==
    <<ST_WAIT_CONTRACTOR, ST_WAIT_INSPECTOR, ST_WAIT_SUPERVISOR,
      ST_PROG_INSPECTOR, ST_PROG_CONTRACTOR, ST_REOPENED>>

SLA_WITHIN == <<"l", "m", " ", "t", "t", "j", "A", "w", "z">>              \* lm ttjAwz
SLA_NEAR ==                                                                \* qArb ElY tjAwz SLA
    <<"q", "A", "r", "b", " ", "E", "l", "Y", " ", "t", "j", "A", "w", "z", " ", "LS", "LL", "LA">>
SLA_LATE == <<"t", "j", "A", "w", "z", " ", "LS", "LL", "LA">>             \* tjAwz SLA

SLA_ORDER == <<SLA_WITHIN, SLA_NEAR, SLA_LATE>>

SRC_URBI == <<"LU", "Lr", "Lb", "Li">>                                     \* Urbi
SRC_BALADY == <<"t", "T", "b", "y", "q", " ", "b", "l", "d", "y">>         \* tTbyq bldy
SRC_TAWAKKALNA == <<"t", "w", "k", "l", "n", "A">>                         \* twklnA
SRC_CALL_CENTERS ==                                                        \* mrAkz AlAtSAl
    <<"m", "r", "A", "k", "z", " ", "A", "l", "A", "t", "S", "A", "l">>

ALLOWED_SOURCES == {SRC_URBI, SRC_BALADY, SRC_TAWAKKALNA, SRC_CALL_CENTERS}

\* the grand-total row label, Al<jmAly Alkly
TOTAL_LABEL ==
    <<"A", "l", "<", "j", "m", "A", "l", "y", " ", "A", "l", "k", "l", "y">>

\* BAD_CLASS, AlsyArAt AltAlfp
BAD_CLASS ==
    <<"A", "l", "s", "y", "A", "r", "A", "t", " ", "A", "l", "t", "A", "l", "f", "p">>

Range(f) == {f[i] : i \in DOMAIN f}

----------------------------------------------------------------------------
(* Field classifier *)

\* the branches with the inspector tested before the contractor while awaiting
status_of_inspector_first(s, raw) ==
    LET In(w) == Contains(s, w)
        wait == In(<<"A", "n", "t", "Z", "A", "r">>)
                /\ In(<<"A", "s", "t", "j", "A", "b", "h">>)
        prog == In(<<"A", "l", "t", "n", "f", "y", "*">>)
                /\ (In(<<"q", "y", "d">>) \/ In(<<"j", "A", "r", "y">>))
        susp == In(<<"m", "E", "l", "q">>) /\ In(<<"f", "t", "H">>)
        mqAwl == <<"m", "q", "A", "w", "l">>
        mrAqb == <<"m", "r", "A", "q", "b">>
    IN  IF wait /\ In(mrAqb) THEN ST_WAIT_INSPECTOR
        ELSE IF wait /\ In(mqAwl) THEN ST_WAIT_CONTRACTOR
        ELSE IF wait /\ In(<<"m", "$", "r", "f">>) THEN ST_WAIT_SUPERVISOR
        ELSE IF prog /\ In(mrAqb) THEN ST_PROG_INSPECTOR
        ELSE IF prog /\ In(mqAwl) THEN ST_PROG_CONTRACTOR
        ELSE IF susp THEN ST_REOPENED
        ELSE raw

\* the branches of canon_status, on the normalized string s
status_of(s, raw) ==
    LET In(w) == Contains(s, w)
        AntZAr == <<"A", "n", "t", "Z", "A", "r">>
        AstjAbh == <<"A", "s", "t", "j", "A", "b", "h">>
        mqAwl == <<"m", "q", "A", "w", "l">>
        mrAqb == <<"m", "r", "A", "q", "b">>
        mshrf == <<"m", "$", "r", "f">>
        qyd == <<"q", "y", "d">>
        Altnfy == <<"A", "l", "t", "n", "f", "y", "*">>
        jAry == <<"j", "A", "r", "y">>
        mElq == <<"m", "E", "l", "q">>
        AEAdh_ftH == <<"A", "E", "A", "d", "h", " ", "f", "t", "H">>
        AEAdp_ftH == <<"A", "E", "A", "d", "p", " ", "f", "t", "H">>
        ftH == <<"f", "t", "H">>
        wait == In(AntZAr) /\ In(AstjAbh)
        prog == (In(qyd) /\ In(Altnfy)) \/ (In(Altnfy) /\ (In(qyd) \/ In(jAry)))
        susp == In(mElq) /\ (In(AEAdh_ftH) \/ In(AEAdp_ftH) \/ In(ftH))
    IN  IF wait /\ In(mqAwl) THEN ST_WAIT_CONTRACTOR
        ELSE IF wait /\ In(mrAqb) THEN ST_WAIT_INSPECTOR
        ELSE IF wait /\ In(mshrf) THEN ST_WAIT_SUPERVISOR
        ELSE IF prog /\ In(mrAqb) THEN ST_PROG_INSPECTOR
        ELSE IF prog /\ In(mqAwl) THEN ST_PROG_CONTRACTOR
        ELSE IF susp THEN ST_REOPENED
        ELSE raw

\* canon_status
canon_status(raw) == Bind(_norm_ar(Str(raw)), LAMBDA s : status_of(s, raw))

\* str.lower() on the Latin letters the model writes
lower_char(c) ==
    CASE c = "LU" -> "Lu"
      [] c = "LR" -> "Lr"
      [] c = "LB" -> "Lb"
      [] c = "LI" -> "Li"
      [] c = "LS" -> "Ls"
      [] c = "LL" -> "Ll"
      [] c = "LA" -> "La"
      [] OTHER -> c

lower(s) == [i \in 1..Len(s) |-> lower_char(s[i])]

\* the branches of canon_source, on the normalized string s
source_of(s, x) ==
    LET In(w) == Contains(s, w)
        urbi == <<"Lu", "Lr", "Lb", "Li">>
        bldy == <<"b", "l", "d", "y">>
        twklnA == <<"t", "w", "k", "l", "n", "A">>
        mrAkz == <<"m", "r", "A", "k", "z">>
        mrkz == <<"m", "r", "k", "z">>
        AtSAl == <<"A", "t", "S", "A", "l">>
    IN  IF Contains(lower(s), urbi) THEN SRC_URBI
        ELSE IF In(bldy) THEN SRC_BALADY
        ELSE IF In(twklnA) THEN SRC_TAWAKKALNA
        ELSE IF (In(mrAkz) /\ In(AtSAl)) \/ (In(mrkz) /\ In(AtSAl)) THEN SRC_CALL_CENTERS
        ELSE x

\* canon_source
canon_source(x) == Bind(_norm_ar(Str(x)), LAMBDA s : source_of(s, x))

----------------------------------------------------------------------------
(* Record pipeline *)

\* a timestamp or a duration, in milliseconds, or NaT
Ts(t) == [nat |-> FALSE, t |-> t]
NaT == [nat |-> TRUE, t |-> 0]

MsPerSecond == 1000
SecondsPerHour == 3600
SlaNearFrom == 72
SlaNearTo == 95

IndexOf(seq, x) == CHOOSE i \in 1..Len(seq) : seq[i] = x /\ \A j \in 1..(i - 1) : seq[j] # x

Min(a, b) == IF a <= b THEN a ELSE b

\* the columns dropped right after the creation-date column
drop_after(columns) ==
    LET idx_created == IndexOf(columns, COL_CREATED)
    IN  {columns[i] : i \in (idx_created + 1)..Min(idx_created + 3, Len(columns))}

\* the columns preprocess keeps: those not in drop_after, up to the source column
trim_columns(columns) ==
    LET kept == SelectSeq(columns, LAMBDA c : c \notin drop_after(columns))
    IN  SubSeq(kept, 1, IndexOf(kept, COL_SOURCE))

\* the trimming raises KeyError when a column it looks up is not there
trim_raises(columns) ==
    \/ COL_CREATED \notin Range(columns)
    \/ COL_SOURCE \notin (Range(columns) \ drop_after(columns))

\* the later steps of preprocess raise when a column they read was trimmed away
preprocess_raises(columns) ==
    \/ trim_raises(columns)
    \/ COL_CREATED \notin Range(trim_columns(columns))
    \/ COL_STATUS \notin Range(trim_columns(columns))

\* the rows that pass the "new classification" filter
class_filter(columns, rows) ==
    IF NEW_CLASS_COL \in Range(columns)
    THEN SelectSeq(rows, LAMBDA r : _norm_ar(Str(r.cls)) # _norm_ar(Str(BAD_CLASS)))
    ELSE rows

\* the number of non-null timestamps of a column
notna_sum(col) == Cardinality({i \in DOMAIN col : ~col[i].nat})

\* parse_created_col: s[i].mf and s[i].df are what pd.to_datetime makes of cell i
\* with dayfirst=False and with dayfirst=True
parse_created_col(s) ==
    LET a == [i \in DOMAIN s |-> s[i].mf]
        b == [i \in DOMAIN s |-> s[i].df]
    IN  IF notna_sum(b) > notna_sum(a) THEN b ELSE a

\* closed - created
elapsed_of(closed, created) ==
    IF created.nat THEN NaT ELSE Ts(closed - created.t)

\* .astype("int64") of a float: the fraction is cut off, towards zero
trunc_div(a, b) == IF a >= 0 THEN a \div b ELSE -((-a) \div b)

\* total_seconds().astype("int64") without fillna(0): a null becomes a huge negative number
total_seconds_int_nofill(elapsed) ==
    IF elapsed.nat THEN -2000000000 ELSE trunc_div(elapsed.t, MsPerSecond)

\* total_seconds().fillna(0).astype("int64")
total_seconds_int(elapsed) ==
    IF elapsed.nat THEN 0 ELSE trunc_div(elapsed.t, MsPerSecond)

\* np.floor_divide(total_seconds, 3600)
hours_of(elapsed) == total_seconds_int(elapsed) \div SecondsPerHour

\* np.select with the first condition h <= 72
sla_of_inclusive(h) ==
    IF h <= SlaNearFrom THEN SLA_WITHIN
    ELSE IF h >= SlaNearFrom /\ h <= SlaNearTo THEN SLA_NEAR
    ELSE SLA_LATE

\* np.select(conds, choices, default)
sla_of(h) ==
    IF h < SlaNearFrom THEN SLA_WITHIN
    ELSE IF h >= SlaNearFrom /\ h <= SlaNearTo THEN SLA_NEAR
    ELSE SLA_LATE

\* the status filter of preprocess
status_kept(r) == r.status_canon \in Range(STATUS_CANON)

\* preprocess without its source filter
source_kept_all(r) == TRUE

\* the source filter of preprocess
source_kept(r) == r.source \in ALLOWED_SOURCES

\* the columns preprocess derives for one row; idx is the row's index label
derive_row(idx, raw, created, closed, rows_before, rows_after) ==
    Bind(elapsed_of(closed, created), LAMBDA elapsed :
        [idx |-> idx,
         id |-> raw.id,
         admin |-> raw.admin,
         created |-> created,
         closed |-> closed,
         elapsed |-> elapsed,
         hours |-> hours_of(elapsed),
         status_canon |-> canon_status(raw.status),
         source |-> canon_source(raw.source),
         deleted_bad_class |-> rows_before - rows_after,
         rows_before_filter |-> rows_before,
         rows_after_filter |-> rows_after])

\* the SLA column of one surviving row
with_sla(r) ==
    [idx |-> r.idx, id |-> r.id, admin |-> r.admin, created |-> r.created,
     closed |-> r.closed, elapsed |-> r.elapsed, hours |-> r.hours,
     status_canon |-> r.status_canon, source |-> r.source,
     sla |-> sla_of(r.hours),
     deleted_bad_class |-> r.deleted_bad_class,
     rows_before_filter |-> r.rows_before_filter,
     rows_after_filter |-> r.rows_after_filter]

\* preprocess, on a frame whose columns let it run: the surviving rows, each
\* with the index label of the input row it was
preprocess(df, closed) ==
    Bind(trim_columns(df.columns), LAMBDA columns :
    Bind(class_filter(columns, [i \in DOMAIN df.rows |-> [idx |-> i, cls |-> df.rows[i].cls]]),
         LAMBDA filtered :
    Bind(parse_created_col([i \in DOMAIN filtered |-> df.rows[filtered[i].idx].created]),
         LAMBDA created :
    Bind([i \in DOMAIN filtered |->
             derive_row(filtered[i].idx, df.rows[filtered[i].idx], created[i], closed,
                        Len(df.rows), Len(filtered))],
         LAMBDA derived :
    Bind(SelectSeq(derived, status_kept), LAMBDA with_status :
    Bind(SelectSeq(with_status, source_kept), LAMBDA survivors :
        [i \in DOMAIN survivors |-> with_sla(survivors[i])]))))))

----------------------------------------------------------------------------
(* Aggregator *)

RECURSIVE SumOver(_, _)
\* the sum of f[x] over x in S
SumOver(S, f) ==
    IF S = {} THEN 0
    ELSE Bind(CHOOSE y \in S : TRUE, LAMBDA x : f[x] + SumOver(S \ {x}, f))

\* the group keys of groupby(COL_ADMIN): null keys make no group
admin_keys(rows) == {r.admin.v : r \in {q \in Range(rows) : q.admin.isstr}}

\* groupby([COL_ADMIN, by])[COL_ID].count(): the non-null ids of one group
group_count(rows, by, admin, cat) ==
    Cardinality({i \in DOMAIN rows :
        /\ rows[i].admin = Str(admin)
        /\ rows[i][by] = cat
        /\ rows[i].id # "NA"})

\* sum(axis=0) of the unit rows, then .loc[TOTAL_LABEL] = that sum: the row is
\* added, or the row that already has that label is overwritten
with_total(counts, columns) ==
    Bind([c \in Range(columns) |->
             SumOver(DOMAIN counts, [a \in DOMAIN counts |-> counts[a][c]])],
         LAMBDA total :
             [l \in DOMAIN counts \cup {TOTAL_LABEL} |->
                 IF l = TOTAL_LABEL THEN total ELSE counts[l]])

\* a count matrix, unit by category, with its grand-total row
pivot_table(rows, by, columns) ==
    Bind([a \in admin_keys(rows) |->
             [c \in Range(columns) |-> group_count(rows, by, a, c)]],
         LAMBDA counts :
             [kind |-> "pivot",
              columns |-> columns,
              note |-> <<>>,
              data |-> with_total(counts, columns)])

\* pivots
pivots(df_proc) ==
    [p_open |-> pivot_table(df_proc, "status_canon", STATUS_CANON),
     p_sla |-> pivot_table(df_proc, "sla", SLA_ORDER)]

\* the channel pivot of a non-empty df_urbi: unstack makes one column per
\* source value of a group
urbi_pivot(df_urbi) ==
    pivot_table(df_urbi, "source",
                IF admin_keys(df_urbi) = {} THEN <<>> ELSE <<SRC_URBI>>)

\* pd.DataFrame({"mlAHZp": ["lA twjd blAgAt Urbi"]})
PlaceholderFrame ==
    [kind |-> "placeholder",
     columns |-> <<<<"m", "l", "A", "H", "Z", "p">>>>,
     note |-> <<"l", "A", " ", "t", "w", "j", "d", " ", "b", "l", "A", "g", "A", "t",
                " ", "LU", "Lr", "Lb", "Li">>,
     data |-> <<>>]

\* pd.DataFrame()
EmptyFrame == [kind |-> "empty", columns |-> <<>>, note |-> <<>>, data |-> <<>>]

NoFrame == [kind |-> "none", columns |-> <<>>, note |-> <<>>, data |-> <<>>]

\* pivots raises KeyError when the unit or the identifier column was trimmed away
pivots_raises(columns) ==
    \/ COL_ADMIN \notin Range(trim_columns(columns))
    \/ COL_ID \notin Range(trim_columns(columns))

\* the split that keeps every surviving row for the first two pivots
not_urbi_all(r) == TRUE

not_urbi(r) == r.source # SRC_URBI
is_urbi(r) == r.source = SRC_URBI

Raised == [raised |-> TRUE, df_all |-> <<>>, p_open |-> NoFrame, p_sla |-> NoFrame,
           p_urbi |-> NoFrame, urbi_index |-> FALSE]

\* build with the empty frame of get_pivots_for_ppt
build_no_urbi_empty == EmptyFrame

\* the channel pivot build writes when df_urbi is empty
build_no_urbi == PlaceholderFrame

\* build, up to the frames it writes to the workbook
build(sheet, closed) ==
    IF preprocess_raises(sheet.columns) \/ pivots_raises(sheet.columns) THEN Raised
    ELSE
    Bind(preprocess(sheet, closed), LAMBDA df_all :
    Bind(SelectSeq(df_all, not_urbi), LAMBDA df_ar :
    Bind(SelectSeq(df_all, is_urbi), LAMBDA df_urbi :
        [raised |-> FALSE,
         df_all |-> df_all,
         p_open |-> pivots(df_ar).p_open,
         p_sla |-> pivots(df_ar).p_sla,
         p_urbi |-> IF df_urbi = <<>> THEN build_no_urbi ELSE urbi_pivot(df_urbi),
         urbi_index |-> df_urbi # <<>>])))

\* the channel pivot get_pivots_for_ppt returns when df_urbi is empty
ppt_no_urbi == EmptyFrame

\* get_pivots_for_ppt
get_pivots_for_ppt(sheet, closed) ==
    IF preprocess_raises(sheet.columns) \/ pivots_raises(sheet.columns) THEN Raised
    ELSE
    Bind(preprocess(sheet, closed), LAMBDA df_all :
    Bind(SelectSeq(df_all, not_urbi), LAMBDA df_ar :
    Bind(SelectSeq(df_all, is_urbi), LAMBDA df_urbi :
        [raised |-> FALSE,
         df_all |-> df_all,
         p_open |-> pivots(df_ar).p_open,
         p_sla |-> pivots(df_ar).p_sla,
         p_urbi |-> IF df_urbi = <<>> THEN ppt_no_urbi ELSE urbi_pivot(df_urbi),
         urbi_index |-> FALSE])))

----------------------------------------------------------------------------
(* Admin-name matcher of ppt_fill.py *)

\* the first position from i on that holds whitespace (Len(s) + 1 if none)
RECURSIVE skip_word(_, _)
skip_word(s, i) == IF i <= Len(s) /\ ~IsSpace(s[i]) THEN skip_word(s, i + 1) ELSE i

\* str.split() from position i on: the words between runs of whitespace
RECURSIVE split_from(_, _)
split_from(s, i) ==
    Bind(skip_ws(s, i), LAMBDA j :
        IF j > Len(s) THEN <<>>
        ELSE Bind(skip_word(s, j), LAMBDA k :
                <<SubSeq(s, j, k - 1)>> \o split_from(s, k)))

\* str.split()
split(s) == split_from(s, 1)

\* str.startswith
startswith(s, prefix) == Len(s) >= Len(prefix) /\ SubSeq(s, 1, Len(prefix)) = prefix

\* the stop-list of _keywords
STOP_WORDS ==
    {<<"A", "l", "A", "d", "A", "r", "h">>,      \* AlAdArh
     <<"A", "d", "A", "r", "h">>,                \* AdArh
     <<"A", "l", "A", "d", "A", "r", "p">>,      \* AlAdArp
     <<"A", "l", "E", "A", "m", "h">>,           \* AlEAmh
     <<"E", "A", "m", "h">>,                     \* EAmh
     <<"A", "l", "E", "A", "m", "p">>,           \* AlEAmp
     <<"b", "l", "d", "y", "h">>,                \* bldyh
     <<"b", "l", "d", "y", "p">>,                \* bldyp
     <<"A", "m", "A", "n", "h">>,                \* AmAnh
     <<"A", "m", "A", "n", "p">>,                \* AmAnp
     <<"m", "d", "y", "n", "h">>,                \* mdynh
     <<"m", "d", "y", "n", "p">>,                \* mdynp
     <<"A", "l", "m", "d", "y", "n", "h">>,      \* Almdynh
     <<"m", "n", "T", "q", "h">>,                \* mnTqh
     <<"m", "n", "T", "q", "p">>,                \* mnTqp
     <<"A", "l", "m", "n", "T", "q", "h">>}      \* AlmnTqh

\* the prefix stripping of _keywords: "ll", "Al" or "l" off a longer token
strip_prefix(tok) ==
    IF startswith(tok, <<"l", "l">>) /\ Len(tok) > 2 THEN SubSeq(tok, 3, Len(tok))
    ELSE IF startswith(tok, <<"A", "l">>) /\ Len(tok) > 2 THEN SubSeq(tok, 3, Len(tok))
    ELSE IF startswith(tok, <<"l">>) /\ Len(tok) > 2 THEN SubSeq(tok, 2, Len(tok))
    ELSE tok

\* _keywords
_keywords(x) ==
    Bind(split(_norm_ar(Str(x))), LAMBDA toks :
        {strip_prefix(toks[i]) : i \in DOMAIN toks} \ (STOP_WORDS \cup {<<>>}))

W_jnwb == <<"j", "n", "w", "b">>                      \* jnwb, south
W_shmAl == <<"$", "m", "A", "l">>                     \* $mAl, north
W_wsT == <<"w", "s", "T">>                            \* wsT, center

is_muni(s) ==
    Contains(s, <<"b", "l", "d", "y", "h">>) \/ Contains(s, <<"b", "l", "d", "y", "p">>)
is_south(s) == Contains(s, W_jnwb)
is_north(s) == Contains(s, W_shmAl)
is_center(s) == Contains(s, W_wsT)

\* "AdArh" in s or "AlAdArh" in s or "AlAdArp" in s
has_department(s) ==
    \/ Contains(s, <<"A", "d", "A", "r", "h">>)
    \/ Contains(s, <<"A", "l", "A", "d", "A", "r", "h">>)
    \/ Contains(s, <<"A", "l", "A", "d", "A", "r", "p">>)

\* "EAmh" in s or "AlEAmh" in s or "AlEAmp" in s
has_general(s) ==
    \/ Contains(s, <<"E", "A", "m", "h">>)
    \/ Contains(s, <<"A", "l", "E", "A", "m", "h">>)
    \/ Contains(s, <<"A", "l", "E", "A", "m", "p">>)

\* "AlnZAfh" in s or "AlnZAfp" in s
has_clean(s) ==
    \/ Contains(s, <<"A", "l", "n", "Z", "A", "f", "h">>)
    \/ Contains(s, <<"A", "l", "n", "Z", "A", "f", "p">>)

has_projects(s) == Contains(s, <<"m", "$", "A", "r", "y", "E">>)        \* m$AryE

is_main_clean(s) == has_clean(s) /\ has_department(s) /\ has_general(s)
is_main_projects(s) == has_projects(s) /\ has_department(s) /\ has_general(s)

\* "t$gyl" in s and "SyAn" in s
has_operation_maintenance(s) ==
    Contains(s, <<"t", "$", "g", "y", "l">>) /\ Contains(s, <<"S", "y", "A", "n">>)

\* "AnArh" in n or "AnArp" in n
has_lighting(n) ==
    Contains(n, <<"A", "n", "A", "r", "h">>) \/ Contains(n, <<"A", "n", "A", "r", "p">>)

\* "AlASHAH" in s and "Alby}y" in s
has_environmental_sanitation(s) ==
    /\ Contains(s, <<"A", "l", "A", "S", "H", "A", "H">>)
    /\ Contains(s, <<"A", "l", "b", "y", "}", "y">>)

\* "tEmyr" in n or ("rqAbh" in n and "AlxdmAt" in n)
redevelopment_or_monitoring(n) ==
    \/ Contains(n, <<"t", "E", "m", "y", "r">>)
    \/ /\ Contains(n, <<"r", "q", "A", "b", "h">>)
       /\ Contains(n, <<"A", "l", "x", "d", "m", "A", "t">>)

\* the municipal rule with no direction asked of the query
muni_rule_triggers_any(s) == is_muni(s)

\* the trigger of the municipal rule
muni_rule_triggers(s) == is_muni(s) /\ (is_south(s) \/ is_north(s) \/ is_center(s))

\* the candidates the municipal rule appends
muni_candidate(s, n) ==
    \/ is_south(s) /\ is_south(n) /\ redevelopment_or_monitoring(n)
    \/ is_north(s) /\ is_north(n) /\ redevelopment_or_monitoring(n)
    \/ is_center(s) /\ is_center(n) /\ redevelopment_or_monitoring(n)

\* the candidates the four later special-case rules append
special_candidate(s, n) ==
    \/ is_main_clean(s) /\ has_clean(n)
    \/ is_main_projects(s) /\ has_projects(n)
    \/ has_operation_maintenance(s) /\ (has_operation_maintenance(n) \/ has_lighting(n))
    \/ has_environmental_sanitation(s) /\ has_environmental_sanitation(n)

\* kw_n == kw_s or kw_n.issubset(kw_s) or kw_s.issubset(kw_n)
keyword_match(kw_n, kw_s) == kw_n = kw_s \/ kw_n \subseteq kw_s \/ kw_s \subseteq kw_n

\* the loop body without the continue that ends the municipal branch
appended_fallthrough(s, name) ==
    Bind(_norm_ar(Str(name)), LAMBDA n :
        \/ muni_rule_triggers(s) /\ muni_candidate(s, n)
        \/ special_candidate(s, n)
        \/ n = s
        \/ keyword_match(_keywords(n), _keywords(s)))

\* one turn of the loop over all_admins: whether name is appended to matches
appended(s, name) ==
    Bind(_norm_ar(Str(name)), LAMBDA n :
        IF muni_rule_triggers(s) THEN muni_candidate(s, n)
        ELSE \/ special_candidate(s, n)
             \/ n = s
             \/ keyword_match(_keywords(n), _keywords(s)))

\* the closing loop: the names of all_admins that are in found, each once, in order
RECURSIVE ordered_from(_, _, _)
ordered_from(names, i, found) ==
    IF i > Len(names) THEN <<>>
    ELSE IF names[i] \in found /\ names[i] \notin {names[j] : j \in 1..(i - 1)}
         THEN <<names[i]>> \o ordered_from(names, i + 1, found)
         ELSE ordered_from(names, i + 1, found)

\* _match_admin_indices
_match_admin_indices(label, names) ==
    Bind(_norm_ar(Str(label)), LAMBDA s :
    Bind({names[i] : i \in {j \in DOMAIN names : appended(s, names[j])}}, LAMBDA found :
        ordered_from(names, 1, found)))

----------------------------------------------------------------------------
(* Slide filler of ppt_fill.py: the main table *)

\* the largest position of seq whose element satisfies P, 0 (None) if there is none
last_index(seq, P(_)) ==
    Bind({i \in DOMAIN seq : P(seq[i])}, LAMBDA hits :
        IF hits = {} THEN 0 ELSE CHOOSE i \in hits : \A j \in hits : j <= i)

\* the smallest position of seq whose element satisfies P, 0 (None) if there is none
first_index(seq, P(_)) ==
    Bind({i \in DOMAIN seq : P(seq[i])}, LAMBDA hits :
        IF hits = {} THEN 0 ELSE CHOOSE i \in hits : \A j \in hits : i <= j)

\* the header tests of _detect_main_columns, on the text of a header cell
header_admin(txt) ==
    LET tnorm == _norm_ar(Str(txt)) IN
    \/ Contains(tnorm, <<"A", "l", "A", "d", "A", "r", "A", "t">>)         \* AlAdArAt
    \/ Contains(tnorm, <<"A", "l", "A", "d", "A", "r", "h">>)              \* AlAdArh
    \/ Contains(tnorm, <<"A", "l", "A", "d", "A", "r", "p">>)              \* AlAdArp
header_open(txt) ==
    \/ Contains(_norm_ar(Str(txt)),                                        \* AlblAgAt AlmftwHh
                <<"A", "l", "b", "l", "A", "g", "A", "t", " ",
                  "A", "l", "m", "f", "t", "w", "H", "h">>)
    \/ Contains(txt,                                                       \* AlblAgAt AlmftwHp
                <<"A", "l", "b", "l", "A", "g", "A", "t", " ",
                  "A", "l", "m", "f", "t", "w", "H", "p">>)
header_reopen(txt) ==
    LET tnorm == _norm_ar(Str(txt)) IN
    \/ Contains(tnorm, <<"A", "E", "A", "d", "p", " ", "f", "t", "H">>)    \* AEAdp ftH
    \/ Contains(tnorm,                                                     \* AlmEAd ftHhA
                <<"A", "l", "m", "E", "A", "d", " ", "f", "t", "H", "h", "A">>)
header_near(txt) ==
    LET tnorm == _norm_ar(Str(txt)) IN
    \/ Contains(tnorm, <<"q", "A", "r", "b">>)                             \* qArb
    \/ Contains(tnorm,                                                     \* qArb ElY tjAwz
                <<"q", "A", "r", "b", " ", "E", "l", "Y", " ", "t", "j", "A", "w", "z">>)
header_late(txt) ==
    \/ Contains(_norm_ar(Str(txt)),                                        \* Almt>xrh
                <<"A", "l", "m", "t", ">", "x", "r", "h">>)
    \/ Contains(txt, <<"A", "l", "m", "t", ">", "x", "r", "p">>)           \* Almt>xrp
    \/ Contains(_norm_ar(Str(txt)),                                        \* tjAwz sla
                <<"t", "j", "A", "w", "z", " ", "Ls", "Ll", "La">>)
header_other(txt) ==
    \/ Contains(_norm_ar(Str(txt)),                                        \* mSAdr AxrY
                <<"m", "S", "A", "d", "r", " ", "A", "x", "r", "Y">>)
    \/ Contains(txt, <<"m", "S", "A", "d", "r", " ", ">", "x", "r", "Y">>) \* mSAdr >xrY

\* _detect_main_columns: the column of each metric, 0 where the header has none;
\* columns are counted from 1, and the unit column defaults to the first
_detect_main_columns(header) ==
    [admin |-> Bind(last_index(header, header_admin), LAMBDA i : IF i = 0 THEN 1 ELSE i),
     open |-> last_index(header, header_open),
     reopen |-> last_index(header, header_reopen),
     near |-> last_index(header, header_near),
     late |-> last_index(header, header_late),
     other |-> last_index(header, header_other)]

\* the column test of _find_reopen_column
is_reopen_column(col) ==
    LET s == _norm_ar(Str(col)) IN
    /\ Contains(s, <<"m", "E", "l", "q">>) \/ Contains(s, <<"m", "g", "l", "q">>)
    /\ Contains(s, <<"f", "t", "H">>)

\* the column tests of _find_sla_columns
is_near_column(col) == Contains(_norm_ar(Str(col)), <<"q", "A", "r", "b">>)
is_late_column(col) == Contains(_norm_ar(Str(col)), <<"t", "j", "A", "w", "z">>)

\* _find_reopen_column: <<col>> for the first column that passes, <<>> for None
_find_reopen_column(df) ==
    Bind(first_index(df.columns, is_reopen_column), LAMBDA i :
        IF i = 0 THEN <<>> ELSE <<df.columns[i]>>)

\* _find_sla_columns: the last column that passes each test, <<>> for None
_find_sla_columns(df) ==
    [near |-> Bind(last_index(df.columns, is_near_column), LAMBDA i :
                  IF i = 0 THEN <<>> ELSE <<df.columns[i]>>),
     late |-> Bind(last_index(df.columns, is_late_column), LAMBDA i :
                  IF i = 0 THEN <<>> ELSE <<df.columns[i]>>)]

\* DataFrame.empty: no rows or no columns
frame_empty(df) == df.columns = <<>> \/ DOMAIN df.data = {}

\* list(df.index): the labels of S in some order (the sums below ignore the order)
RECURSIVE index_list(_)
index_list(S) ==
    IF S = {} THEN <<>>
    ELSE Bind(CHOOSE x \in S : TRUE, LAMBDA x : <<x>> \o index_list(S \ {x}))

\* _aggregate_for_admin: per column, the sum over the matched unit rows
_aggregate_for_admin(admin_txt, df) ==
    IF frame_empty(df) THEN [c \in Range(df.columns) |-> 0]
    ELSE
    Bind(DOMAIN df.data \ {TOTAL_LABEL}, LAMBDA units :
    Bind(Range(_match_admin_indices(admin_txt, index_list(units))), LAMBDA idxs :
        [c \in Range(df.columns) |-> SumOver(idxs, [a \in units |-> df.data[a][c]])]))

\* Series.sum()
series_sum(vals) == SumOver(DOMAIN vals, vals)

\* Series.get(col, 0), col being <<name>> or <<>> (None)
series_get(vals, col) ==
    IF col # <<>> /\ col[1] \in DOMAIN vals THEN vals[col[1]] ELSE 0

\* the five values _fill_main_table computes for one template row
row_metrics(admin_txt, p_open, p_sla, p_other) ==
    Bind(_aggregate_for_admin(admin_txt, p_open), LAMBDA vals_open :
    Bind(_aggregate_for_admin(admin_txt, p_sla), LAMBDA vals_sla :
    Bind(series_get(vals_open, _find_reopen_column(p_open)), LAMBDA reopen_val :
        [open |-> series_sum(vals_open) - reopen_val,
         reopen |-> reopen_val,
         near |-> series_get(vals_sla, _find_sla_columns(p_sla).near),
         late |-> series_get(vals_sla, _find_sla_columns(p_sla).late),
         other |-> IF ~frame_empty(p_other)
                   THEN series_sum(_aggregate_for_admin(admin_txt, p_other))
                   ELSE 0])))

\* the order in which the five cells of a row are written
MetricOrder == <<"open", "reopen", "near", "late", "other">>

\* the cells of one row after the writes: column -> value, a later write winning
write_cells(colmap, m) ==
    [i \in {colmap[k] : k \in Range(MetricOrder)} \ {0} |->
        m[MetricOrder[last_index(MetricOrder, LAMBDA k : colmap[k] = i)]]]

\* the marker of the total row
is_total_row(admin_txt) ==
    Contains(_norm_ar(Str(admin_txt)), <<"A", "l", "A", "j", "m", "A", "l", "y">>)

\* the sum of the field k over the rows in S
total_of(S, metrics, k) == SumOver(S, [r \in S |-> metrics[r][k]])

\* _fill_main_table on a table given by its header texts and the texts of its
\* unit column, row by row below the header
_fill_main_table(table, p_open, p_sla, p_other) ==
    Bind(_detect_main_columns(table.header), LAMBDA colmap :
    Bind([r \in DOMAIN table.rows |-> strip(table.rows[r])], LAMBDA admin_txt :
    Bind({r \in DOMAIN admin_txt : admin_txt[r] # <<>> /\ ~is_total_row(admin_txt[r])},
         LAMBDA unit_rows :
    Bind([r \in unit_rows |-> row_metrics(admin_txt[r], p_open, p_sla, p_other)],
         LAMBDA metrics :
    Bind([k \in Range(MetricOrder) |-> total_of(unit_rows, metrics, k)], LAMBDA total :
    Bind(last_index(admin_txt, LAMBDA x : x # <<>> /\ is_total_row(x)),
         LAMBDA total_row_idx :
        [cells |-> [r \in unit_rows \cup ({total_row_idx} \ {0}) |->
                       IF r \in unit_rows THEN write_cells(colmap, metrics[r])
                       ELSE write_cells(colmap, total)],
         colmap |-> colmap,
         total_row_idx |-> total_row_idx,
         totals |-> [open |-> total["open"], near |-> total["near"],
                     late |-> total["late"], other |-> total["other"]]]))))))

----------------------------------------------------------------------------
(* Runs of app.py: one upload, build, then get_pivots_for_ppt *)

NoOut == [raised |-> FALSE, df_all |-> <<>>, p_open |-> NoFrame, p_sla |-> NoFrame,
          p_urbi |-> NoFrame, urbi_index |-> FALSE]

NoSheet == [columns |-> <<>>, rows |-> <<>>]

NormIdle == norm_in = NotStr /\ norm_out = <<>>

MatchIdle ==
    /\ admin_in_slide = <<>>
    /\ all_admins = <<>>
    /\ match_done = FALSE
    /\ matches = <<>>

StatusIdle == raw_status = <<>> /\ status_out = <<>>

NoTable == [header |-> <<>>, rows |-> <<>>]
SlideIdle == main_table = NoTable /\ slide_out = <<>>

PipeIdle ==
    /\ xls = NoSheet
    /\ closed_ts = 0
    /\ pc = "none"
    /\ excel_out = NoOut
    /\ ppt_out = NoOut

MaxRows == 2

\* column layouts of the export: with and without the classification column
LayoutFull ==
    <<COL_ID, COL_ADMIN, COL_STATUS, NEW_CLASS_COL, COL_CREATED,
      COL_CLOSED, COL_ELAPSED, COL_HOURS, COL_SOURCE, "extra">>
LayoutPlain ==
    <<COL_ID, COL_ADMIN, COL_STATUS, COL_CREATED, "x1", "x2", "x3", COL_SOURCE>>

Row(id, admin, status, source, created, cls) ==
    [id |-> id, admin |-> admin, status |-> status, source |-> source,
     created |-> created, cls |-> cls]

\* a cell both interpretations parse to the same instant
Plain(t) == [mf |-> Ts(t), df |-> Ts(t)]

ADMIN_CLEAN == <<"A", "l", "n", "Z", "A", "f", "p">>         \* AlnZAfp
ADMIN_PARKS == <<"A", "l", "H", "d", "A", "}", "q">>         \* AlHdA}q

\* raw statuses: two that canonicalize, one that does not
RAW_PROG_CONTRACTOR ==   \* jAry Altnfy* mn qbl AlmqAwl
    <<"j", "A", "r", "y", " ", "A", "l", "t", "n", "f", "y", "*", " ", "m", "n", " ",
      "q", "b", "l", " ", "A", "l", "m", "q", "A", "w", "l">>
RAW_REOPENED ==          \* mElq - <EAdp ftH
    <<"m", "E", "l", "q", " ", "-", " ", "<", "E", "A", "d", "p", " ", "f", "t", "H">>
RAW_CLOSED == <<"m", "g", "l", "q">>                          \* mglq

\* raw sources: two that canonicalize, one that does not
RAW_URBI == <<"LU", "LR", "LB", "LI">>                        \* URBI
RAW_CALL_CENTER ==       \* mrkz AlAtSAl AlmwHd
    <<"m", "r", "k", "z", " ", "A", "l", "A", "t", "S", "A", "l", " ",
      "A", "l", "m", "w", "H", "d">>
RAW_MAIL == <<"A", "l", "b", "r", "y", "d">>                  \* Albryd

CLASS_OTHER == <<">", "x", "r", "Y">>                         \* >xrY

HourMs == SecondsPerHour * MsPerSecond

RowsPipe ==
    {Row("id", Str(a), sc[1], sc[2], Plain(-HourMs), CLASS_OTHER) :
        a \in {ADMIN_CLEAN, ADMIN_PARKS},
        sc \in {<<RAW_PROG_CONTRACTOR, RAW_CALL_CENTER>>, <<RAW_REOPENED, RAW_URBI>>,
                <<RAW_CLOSED, RAW_CALL_CENTER>>, <<RAW_PROG_CONTRACTOR, RAW_MAIL>>}}
    \cup {Row("id", Str(TOTAL_LABEL), RAW_PROG_CONTRACTOR, RAW_CALL_CENTER, Plain(-HourMs),
              CLASS_OTHER),
          Row("id", NotStr, RAW_PROG_CONTRACTOR, RAW_CALL_CENTER, Plain(-HourMs), CLASS_OTHER),
          Row("NA", Str(ADMIN_CLEAN), RAW_REOPENED, RAW_CALL_CENTER, Plain(-HourMs),
              CLASS_OTHER),
          Row("id", Str(ADMIN_PARKS), RAW_PROG_CONTRACTOR, RAW_CALL_CENTER, Plain(-HourMs),
              BAD_CLASS)}

SheetsOf(layouts, rows) ==
    {[columns |-> l, rows |-> r] :
        l \in layouts, r \in UNION {[1..n -> rows] : n \in 0..MaxRows}}

InitPipe ==
    /\ NormIdle
    /\ MatchIdle
    /\ StatusIdle
    /\ SlideIdle
    /\ xls \in SheetsOf({LayoutFull, LayoutPlain}, RowsPipe)
    /\ closed_ts = 0
    /\ pc = "uploaded"
    /\ excel_out = NoOut
    /\ ppt_out = NoOut

Build ==
    /\ pc = "uploaded"
    /\ excel_out' = build(xls, closed_ts)
    /\ pc' = "excel"
    /\ UNCHANGED <<norm_in, norm_out, xls, closed_ts, ppt_out,
                   admin_in_slide, all_admins, match_done, matches,
                   raw_status, status_out, main_table, slide_out>>

GetPivotsForPpt ==
    /\ pc = "excel"
    /\ ~excel_out.raised
    /\ ppt_out' = get_pivots_for_ppt(xls, closed_ts)
    /\ pc' = "ppt"
    /\ UNCHANGED <<norm_in, norm_out, xls, closed_ts, excel_out,
                   admin_in_slide, all_admins, match_done, matches,
                   raw_status, status_out, main_table, slide_out>>

NextPipe == Build \/ GetPivotsForPpt

SpecPipe == InitPipe /\ [][NextPipe]_vars

----------------------------------------------------------------------------
(* Runs over creation dates around the SLA thresholds *)

\* cells only one interpretation parses, and a cell neither parses
MonthFirstOnly(t) == [mf |-> Ts(t), df |-> NaT]
DayFirstOnly(t) == [mf |-> NaT, df |-> Ts(t)]
Malformed == [mf |-> NaT, df |-> NaT]

HalfSecondMs == MsPerSecond \div 2

\* elapsed times, for a closing reference of 0: around zero, around one hour
\* before the reference, and around the two SLA thresholds
ElapsedMs ==
    {-HourMs - HalfSecondMs, -HourMs, -HalfSecondMs, 0, HalfSecondMs,
     SlaNearFrom * HourMs - HalfSecondMs, SlaNearFrom * HourMs,
     (SlaNearTo + 1) * HourMs - HalfSecondMs, (SlaNearTo + 1) * HourMs}

RAW_TAWAKKALNA == <<"t", "w", "k", "l", "n", "A">>            \* twklnA

CreatedCells ==
    {Plain(-e) : e \in ElapsedMs}
    \cup {Malformed, MonthFirstOnly(-HourMs), DayFirstOnly(-SlaNearFrom * HourMs)}

RowsSla ==
    {Row("id", Str(ADMIN_CLEAN), RAW_REOPENED, RAW_TAWAKKALNA, c, CLASS_OTHER) :
        c \in CreatedCells}
    \cup {Row("id", Str(ADMIN_CLEAN), RAW_CLOSED, RAW_TAWAKKALNA, Malformed, CLASS_OTHER)}

\* the reference is a whole minute: on the hour, or half an hour later
ClosedChoices == {0, HourMs \div 2}

InitSla ==
    /\ NormIdle
    /\ MatchIdle
    /\ StatusIdle
    /\ SlideIdle
    /\ xls \in SheetsOf({LayoutPlain}, RowsSla)
    /\ closed_ts \in ClosedChoices
    /\ pc = "uploaded"
    /\ excel_out = NoOut
    /\ ppt_out = NoOut

SpecSla == InitSla /\ [][NextPipe]_vars

----------------------------------------------------------------------------
(* Properties of the record pipeline and the aggregator *)

\* the results computed so far
Outs == (IF pc \in {"excel", "ppt"} THEN {excel_out} ELSE {})
        \cup (IF pc = "ppt" THEN {ppt_out} ELSE {})

\* input row i canonicalizes to an allowed status and an allowed source
Eligible(i) ==
    /\ canon_status(xls.rows[i].status) \in Range(STATUS_CANON)
    /\ canon_source(xls.rows[i].source) \in ALLOWED_SOURCES

\* the frames of a result that are count matrices
PivotsOf(o) == {f \in {o.p_open, o.p_sla, o.p_urbi} : f.kind = "pivot"}

\* the unit rows of a count matrix: every row but the one labelled as the total
UnitRows(f) == DOMAIN f.data \ {TOTAL_LABEL}

\* C2: every record left after preprocess has a status of STATUS_CANON and a
\* source of ALLOWED_SOURCES; an input record whose status or source does not
\* canonicalize to one is not among the survivors, and no cell of the three
\* pivots counts more than the input records of that unit that do.
C2_SurvivorsCanonical ==
    LET eligible == {i \in DOMAIN xls.rows : Eligible(i)}
    IN  \A o \in Outs :
        /\ ~o.raised
        /\ \A r \in Range(o.df_all) :
              /\ r.status_canon \in Range(STATUS_CANON)
              /\ r.source \in ALLOWED_SOURCES
              /\ r.idx \in eligible
        /\ \A f \in PivotsOf(o) :
              /\ \A l \in UnitRows(f) : \A c \in Range(f.columns) :
                    f.data[l][c] <= Cardinality({i \in eligible : xls.rows[i].admin = Str(l)})
              /\ \A c \in Range(f.columns) :
                    f.data[TOTAL_LABEL][c] <= Cardinality(eligible)

\* a sheet with a record that is excluded and one that is counted, both pivots built
C2_Witness ==
    /\ pc = "ppt"
    /\ Len(xls.rows) = 2
    /\ ~Eligible(1)
    /\ Len(ppt_out.df_all) = 1
    /\ ppt_out.p_open.data[TOTAL_LABEL][ST_PROG_CONTRACTOR] = 1
    /\ excel_out.p_sla.data[TOTAL_LABEL][SLA_WITHIN] = 1

\* C3: the SLA bucket of a surviving record follows from its elapsed whole
\* hours h: h < 72 within, 72 <= h <= 95 approaching, h > 95 breached.
C3_SlaBucket ==
    \A o \in Outs : \A r \in Range(o.df_all) :
        /\ r.sla \in Range(SLA_ORDER)
        /\ (r.hours < 72) = (r.sla = SLA_WITHIN)
        /\ (r.hours >= 72 /\ r.hours <= 95) = (r.sla = SLA_NEAR)
        /\ (r.hours > 95) = (r.sla = SLA_LATE)

\* records at 71 and 72 hours in one run, or at 95 and 96 hours
C3_Witness ==
    /\ pc = "ppt"
    /\ Len(ppt_out.df_all) = 2
    /\ \/ /\ ppt_out.df_all[1].hours = 71 /\ ppt_out.df_all[1].sla = SLA_WITHIN
          /\ ppt_out.df_all[2].hours = 72 /\ ppt_out.df_all[2].sla = SLA_NEAR
       \/ /\ ppt_out.df_all[1].hours = 95 /\ ppt_out.df_all[1].sla = SLA_NEAR
          /\ ppt_out.df_all[2].hours = 96 /\ ppt_out.df_all[2].sla = SLA_LATE

\* C4: whenever the creation timestamp parsed, the elapsed whole hours are
\* floor((closing - creation) in seconds / 3600).
C4_HoursAreFloor ==
    \A o \in Outs : \A r \in Range(o.df_all) :
        ~r.created.nat => r.hours = (closed_ts - r.created.t) \div HourMs

\* C5: a record whose creation date no interpretation parses is kept if its
\* status and source canonicalize; its creation timestamp is null, its elapsed
\* hours are 0, its bucket is "within SLA", and the SLA pivot counts it.
C5_MalformedDate ==
    \A o \in Outs :
        /\ ~o.raised
        /\ \A r \in Range(o.df_all) :
              r.created.nat => r.hours = 0 /\ r.sla = SLA_WITHIN
        /\ \A i \in DOMAIN xls.rows :
              xls.rows[i].created = Malformed /\ Eligible(i) =>
                  \E r \in Range(o.df_all) :
                      r.idx = i /\ r.created = NaT /\ r.hours = 0 /\ r.sla = SLA_WITHIN
        /\ \A a \in {ADMIN_CLEAN} :
              Cardinality({i \in DOMAIN xls.rows :
                  /\ xls.rows[i].created = Malformed
                  /\ Eligible(i)
                  /\ xls.rows[i].admin = Str(a)}) > 0
              => /\ a \in DOMAIN o.p_sla.data
                 /\ o.p_sla.data[a][SLA_WITHIN]
                      >= Cardinality({i \in DOMAIN xls.rows :
                            /\ xls.rows[i].created = Malformed
                            /\ Eligible(i)
                            /\ xls.rows[i].admin = Str(a)})

\* a sheet with a malformed date beside a record past the threshold
C5_Witness ==
    /\ pc = "ppt"
    /\ Len(xls.rows) = 2
    /\ xls.rows[1].created = Malformed
    /\ Len(ppt_out.df_all) = 2
    /\ ppt_out.df_all[1].created = NaT
    /\ ppt_out.df_all[2].sla = SLA_LATE
    /\ ppt_out.p_sla.data[ADMIN_CLEAN][SLA_WITHIN] = 1
    /\ ppt_out.p_sla.data[ADMIN_CLEAN][SLA_LATE] = 1

\* the records a frame of result o is built from
SourceRows(o, f) ==
    IF f = o.p_urbi THEN SelectSeq(o.df_all, is_urbi) ELSE SelectSeq(o.df_all, not_urbi)

\* C6: in every pivot the grand-total row is the column-wise sum of the unit
\* rows, every canonical category is a column, and every unit with a counted
\* record has a row of its own, apart from the total row.
C6_TotalRow ==
    \A o \in Outs : \A f \in PivotsOf(o) :
        /\ \A c \in Range(f.columns) :
              f.data[TOTAL_LABEL][c]
                  = SumOver(UnitRows(f), [l \in UnitRows(f) |-> f.data[l][c]])
        /\ f = o.p_open => f.columns = STATUS_CANON
        /\ f = o.p_sla => f.columns = SLA_ORDER
        /\ \A r \in Range(SourceRows(o, f)) :
              r.admin.isstr /\ r.id # "NA" => r.admin.v \in UnitRows(f)

\* some surviving record has the distinguished source channel
HasUrbi(o) == \E r \in Range(o.df_all) : r.source = SRC_URBI

\* C7: with no surviving Urbi record, the channel pivot is the single-cell
\* placeholder on both paths, build and get_pivots_for_ppt.
C7_PlaceholderBothPaths ==
    \A o \in Outs : ~o.raised /\ ~HasUrbi(o) => o.p_urbi = PlaceholderFrame

\* C7 as amended: with no surviving Urbi record, build writes the single-cell
\* placeholder and get_pivots_for_ppt returns an empty table.
C7_PlaceholderOnBuild ==
    /\ pc \in {"excel", "ppt"} /\ ~excel_out.raised /\ ~HasUrbi(excel_out) =>
          /\ excel_out.p_urbi.kind = "placeholder"
          /\ Len(excel_out.p_urbi.columns) = 1
          /\ excel_out.p_urbi.note # <<>>
          /\ ~excel_out.urbi_index
    /\ pc = "ppt" /\ ~ppt_out.raised /\ ~HasUrbi(ppt_out) =>
          /\ ppt_out.p_urbi.kind = "empty"
          /\ ppt_out.p_urbi.columns = <<>>
          /\ DOMAIN ppt_out.p_urbi.data = {}

\* both paths ran on a sheet whose survivors hold no Urbi record
C7_Witness ==
    /\ pc = "ppt"
    /\ Len(ppt_out.df_all) = 2
    /\ ~HasUrbi(excel_out)
    /\ ~HasUrbi(ppt_out)
    /\ excel_out.p_urbi.kind = "placeholder"
    /\ ppt_out.p_urbi.kind = "empty"

----------------------------------------------------------------------------
(* Runs of the matcher: one template label against the unit labels of a pivot *)

MaxAdmins == 2

L_MUNI_SOUTH == <<"b", "l", "d", "y", "p", " ", "j", "n", "w", "b">>      \* bldyp jnwb
L_MUNI == <<"b", "l", "d", "y", "p">>                                      \* bldyp
L_REDEV_SOUTH == <<"t", "E", "m", "y", "r", " ", "j", "n", "w", "b">>     \* tEmyr jnwb
L_REDEV_NORTH == <<"t", "E", "m", "y", "r", " ", "$", "m", "A", "l">>     \* tEmyr $mAl
L_MONITOR_SOUTH ==                                                         \* rqAbp AlxdmAt jnwb
    <<"r", "q", "A", "b", "p", " ", "A", "l", "x", "d", "m", "A", "t", " ",
      "j", "n", "w", "b">>
L_GENERAL ==                                                               \* Al<dArp AlEAmp
    <<"A", "l", "<", "d", "A", "r", "p", " ", "A", "l", "E", "A", "m", "p">>
L_CLEAN == <<"A", "l", "n", "Z", "A", "f", "p">>                           \* AlnZAfp
L_PARKS == <<"A", "l", "H", "d", "A", "}", "q">>                           \* AlHdA}q
L_PARKS_DEPT ==                                                            \* <dArp AlHdA}q
    <<"<", "d", "A", "r", "p", " ", "A", "l", "H", "d", "A", "}", "q">>
L_ROADS == <<"A", "l", "T", "r", "q">>                                     \* AlTrq
L_PROJECTS_ROADS ==                                              \* Al<dArp AlEAmp lm$AryE AlTrq
    <<"A", "l", "<", "d", "A", "r", "p", " ", "A", "l", "E", "A", "m", "p", " ",
      "l", "m", "$", "A", "r", "y", "E", " ", "A", "l", "T", "r", "q">>
L_PROJECTS == <<"A", "l", "m", "$", "A", "r", "y", "E">>                   \* Alm$AryE

\* labels of template rows
SlideLabels ==
    {L_MUNI_SOUTH, L_MUNI, L_GENERAL, L_PARKS, L_PARKS_DEPT, L_ROADS, L_PROJECTS_ROADS}

\* unit labels of the data
DataLabels ==
    {L_MUNI_SOUTH, L_MUNI, L_REDEV_SOUTH, L_REDEV_NORTH, L_MONITOR_SOUTH,
     L_GENERAL, L_CLEAN, L_PARKS, L_PARKS_DEPT, L_ROADS, L_PROJECTS}

InitMatch ==
    /\ NormIdle
    /\ PipeIdle
    /\ admin_in_slide \in SlideLabels
    /\ all_admins \in UNION {[1..n -> DataLabels] : n \in 0..MaxAdmins}
    /\ match_done = FALSE
    /\ matches = <<>>
    /\ StatusIdle
    /\ SlideIdle

MatchAdmin ==
    /\ ~match_done
    /\ matches' = _match_admin_indices(admin_in_slide, all_admins)
    /\ match_done' = TRUE
    /\ UNCHANGED <<norm_in, norm_out, xls, closed_ts, pc, excel_out, ppt_out,
                   admin_in_slide, all_admins, raw_status, status_out, main_table, slide_out>>

NextMatch == MatchAdmin

SpecMatch == InitMatch /\ [][NextMatch]_vars

----------------------------------------------------------------------------
(* Canonicalizer runs *)

MaxLen == 4
NormAlphabet == {" ", "\t", "-", ">", "p", "b"}
NormStrings == UNION {[1..n -> NormAlphabet] : n \in 0..MaxLen}

InitNorm ==
    /\ norm_in \in {Str(s) : s \in NormStrings} \cup {NotStr}
    /\ norm_out = <<>>
    /\ PipeIdle
    /\ MatchIdle
    /\ StatusIdle
    /\ SlideIdle

Normalize ==
    /\ norm_out = <<>>
    /\ norm_out' = <<_norm_ar(norm_in)>>
    /\ UNCHANGED <<norm_in, xls, closed_ts, pc, excel_out, ppt_out,
                   admin_in_slide, all_admins, match_done, matches,
                   raw_status, status_out, main_table, slide_out>>

NormalizeAgain ==
    /\ Len(norm_out) = 1
    /\ norm_out' = Append(norm_out, _norm_ar(Str(norm_out[1])))
    /\ UNCHANGED <<norm_in, xls, closed_ts, pc, excel_out, ppt_out,
                   admin_in_slide, all_admins, match_done, matches,
                   raw_status, status_out, main_table, slide_out>>

NextNorm == Normalize \/ NormalizeAgain

SpecNorm == InitNorm /\ [][NextNorm]_vars

\* C1: _norm_ar is idempotent: applied to its own result it returns that result;
\* a value that is not a str yields the empty string, which it maps to itself.
C1_NormIdempotent ==
    /\ Len(norm_out) >= 1 /\ ~norm_in.isstr => norm_out[1] = <<>>
    /\ Len(norm_out) = 2 => norm_out[2] = norm_out[1]

\* a string with outer whitespace and spaces on both sides of a dash, normalized twice
C1_Witness ==
    /\ Len(norm_out) = 2
    /\ norm_in.isstr
    /\ Len(norm_in.v) >= 1
    /\ IsSpace(norm_in.v[1])
    /\ Contains(norm_in.v, <<" ", "-", " ">>)
    /\ norm_out[1] # norm_in.v
    /\ norm_out[1] # <<>>

----------------------------------------------------------------------------
(* Properties of the matcher *)

\* the normalized template label and the normalized unit labels
QueryNorm == _norm_ar(Str(admin_in_slide))
CandNorm(i) == _norm_ar(Str(all_admins[i]))

\* the normalized template label holds the municipal word and a direction word
QueryIsMuniWithDirection ==
    /\ is_muni(QueryNorm)
    /\ is_south(QueryNorm) \/ is_north(QueryNorm) \/ is_center(QueryNorm)

\* C8 as stated: a template label equal, after normalization, to a candidate c
\* gets exactly [c] back.
C8_ExactlyCandidate ==
    match_done =>
        \A i \in DOMAIN all_admins :
            CandNorm(i) = QueryNorm => matches = <<all_admins[i]>>

\* C8, amended: a candidate c equal to the template label after normalization
\* is returned, once, unless the label holds the municipal word with a
\* direction word and c does not qualify under that rule, and then c is not
\* returned; other candidates may be returned beside c.
C8_EqualCandidateReturned ==
    match_done =>
        \A i \in DOMAIN all_admins :
            CandNorm(i) = QueryNorm =>
                IF QueryIsMuniWithDirection /\ ~muni_candidate(QueryNorm, CandNorm(i))
                THEN all_admins[i] \notin Range(matches)
                ELSE Cardinality({k \in DOMAIN matches : matches[k] = all_admins[i]}) = 1

C8_Witness ==
    /\ match_done
    /\ admin_in_slide = L_PARKS
    /\ Len(all_admins) = 2
    /\ all_admins[1] = L_PARKS_DEPT
    /\ all_admins[2] = L_PARKS
    /\ matches = <<L_PARKS_DEPT, L_PARKS>>

\* C9: when the normalized template label holds the municipal word and a
\* direction word, the candidates returned are exactly those holding a
\* direction word of the label together with the redevelopment word or the
\* monitoring and services words; equality and keyword matching return
\* nothing more, and nothing is returned when no candidate qualifies.
C9_MuniExclusive ==
    (match_done /\ QueryIsMuniWithDirection) =>
        /\ \A k \in DOMAIN matches :
              \E i \in DOMAIN all_admins :
                  /\ matches[k] = all_admins[i]
                  /\ \/ is_south(QueryNorm) /\ is_south(CandNorm(i))
                     \/ is_north(QueryNorm) /\ is_north(CandNorm(i))
                     \/ is_center(QueryNorm) /\ is_center(CandNorm(i))
                  /\ redevelopment_or_monitoring(CandNorm(i))
        /\ (\A i \in DOMAIN all_admins : ~muni_candidate(QueryNorm, CandNorm(i)))
              => matches = <<>>

C9_Witness ==
    /\ match_done
    /\ admin_in_slide = L_MUNI_SOUTH
    /\ Len(all_admins) = 2
    /\ all_admins[1] = L_MUNI_SOUTH
    /\ all_admins[2] = L_REDEV_SOUTH
    /\ matches = <<L_REDEV_SOUTH>>

\* no rule selects candidate i, it is not equal to the template label after
\* normalization, and it shares no content keyword with it
Implausible(i) ==
    /\ ~(QueryIsMuniWithDirection /\ muni_candidate(QueryNorm, CandNorm(i)))
    /\ ~special_candidate(QueryNorm, CandNorm(i))
    /\ CandNorm(i) # QueryNorm
    /\ _keywords(all_admins[i]) \cap _keywords(admin_in_slide) = {}

\* C10 as stated: a template label with no plausible candidate gets the empty
\* list back, also when the label or a candidate is made of stop-list words.
C10_EmptyWhenNoPlausible ==
    (match_done /\ \A i \in DOMAIN all_admins : Implausible(i)) => matches = <<>>

\* C11 as stated: when the trigger of the cleanliness, projects,
\* operation+maintenance or environmental+sanitation rule holds on the
\* normalized template label, every returned candidate satisfies that rule's
\* own candidate predicate; none is returned through equality or keywords.
C11_SpecialExclusive ==
    match_done =>
        \A k \in DOMAIN matches :
            LET n == _norm_ar(Str(matches[k])) IN
            /\ is_main_clean(QueryNorm) => has_clean(n)
            /\ is_main_projects(QueryNorm) => has_projects(n)
            /\ has_operation_maintenance(QueryNorm)
                  => (has_operation_maintenance(n) \/ has_lighting(n))
            /\ has_environmental_sanitation(QueryNorm)
                  => has_environmental_sanitation(n)

----------------------------------------------------------------------------
(* Runs of the status classifier: canon_status on one raw status *)

W_AntZAr == <<"A", "n", "t", "Z", "A", "r">>                               \* AntZAr
W_AlAstjAbp == <<"A", "l", "A", "s", "t", "j", "A", "b", "p">>             \* AlAstjAbp
W_qyd == <<"q", "y", "d">>                                                 \* qyd
W_jAry == <<"j", "A", "r", "y">>                                           \* jAry
W_Altnfy == <<"A", "l", "t", "n", "f", "y", "*">>                          \* Altnfy*
W_mElq == <<"m", "E", "l", "q">>                                           \* mElq
W_ftH == <<"f", "t", "H">>                                                 \* ftH
W_mqAwl == <<"m", "q", "A", "w", "l">>                                     \* mqAwl
W_mrAqb == <<"m", "r", "A", "q", "b">>                                     \* mrAqb
W_mshrf == <<"m", "$", "r", "f">>                                          \* m$rf

\* the words raw statuses are made of, in the order they are written
StatusWords ==
    <<W_AntZAr, W_AlAstjAbp, W_qyd, W_jAry, W_Altnfy, W_mElq, W_ftH,
      W_mqAwl, W_mrAqb, W_mshrf>>

\* the words of StatusWords at the positions in S, from position i on, joined by spaces
RECURSIVE join_from(_, _)
join_from(S, i) ==
    IF i > Len(StatusWords) THEN <<>>
    ELSE IF i \in S
         THEN Bind(join_from(S, i + 1), LAMBDA rest :
                 IF rest = <<>> THEN StatusWords[i] ELSE StatusWords[i] \o <<" ">> \o rest)
         ELSE join_from(S, i + 1)

RawStatuses == {join_from(S, 1) : S \in SUBSET DOMAIN StatusWords}

InitStatus ==
    /\ NormIdle
    /\ PipeIdle
    /\ MatchIdle
    /\ raw_status \in RawStatuses
    /\ status_out = <<>>
    /\ SlideIdle

CanonStatus ==
    /\ status_out = <<>>
    /\ status_out' = <<canon_status(raw_status)>>
    /\ UNCHANGED <<norm_in, norm_out, xls, closed_ts, pc, excel_out, ppt_out,
                   admin_in_slide, all_admins, match_done, matches, raw_status, main_table, slide_out>>

NextStatus == CanonStatus

SpecStatus == InitStatus /\ [][NextStatus]_vars

\* the normalized raw status holds the word w
StatusHas(w) == Contains(_norm_ar(Str(raw_status)), _norm_ar(Str(w)))

\* the entry conditions of the three branches
EntersWait == StatusHas(W_AntZAr) /\ StatusHas(<<"A", "s", "t", "j", "A", "b", "h">>)
EntersProg == StatusHas(W_Altnfy) /\ (StatusHas(W_qyd) \/ StatusHas(W_jAry))
EntersSusp == StatusHas(W_mElq) /\ StatusHas(W_ftH)

WaitLabels == {ST_WAIT_CONTRACTOR, ST_WAIT_INSPECTOR, ST_WAIT_SUPERVISOR}
ProgLabels == {ST_PROG_INSPECTOR, ST_PROG_CONTRACTOR}

\* C12 as stated: the result is a label of the first branch whose entry
\* condition the normalized status satisfies, or the raw string, never the
\* label of a later branch.
C12_NoFallthrough ==
    Len(status_out) = 1 =>
        IF EntersWait THEN status_out[1] \in WaitLabels \cup {raw_status}
        ELSE IF EntersProg THEN status_out[1] \in ProgLabels \cup {raw_status}
        ELSE IF EntersSusp THEN status_out[1] \in {ST_REOPENED, raw_status}
        ELSE status_out[1] = raw_status

\* C12, amended: the branches are tried in the fixed order and the first
\* branch whose entry condition and actor test both hold gives the label;
\* a branch entered with none of its actors present is left and the later
\* branches are tried; the raw string is returned when none gives a label.
C12_FirstLabelWins ==
    Len(status_out) = 1 =>
        IF EntersWait /\ StatusHas(W_mqAwl) THEN status_out[1] = ST_WAIT_CONTRACTOR
        ELSE IF EntersWait /\ StatusHas(W_mrAqb) THEN status_out[1] = ST_WAIT_INSPECTOR
        ELSE IF EntersWait /\ StatusHas(W_mshrf) THEN status_out[1] = ST_WAIT_SUPERVISOR
        ELSE IF EntersProg /\ StatusHas(W_mrAqb) THEN status_out[1] = ST_PROG_INSPECTOR
        ELSE IF EntersProg /\ StatusHas(W_mqAwl) THEN status_out[1] = ST_PROG_CONTRACTOR
        ELSE IF EntersSusp THEN status_out[1] = ST_REOPENED
        ELSE status_out[1] = raw_status

\* awaiting a response with no actor named, and suspended-reopened as well
C12_Witness ==
    /\ Len(status_out) = 1
    /\ EntersWait
    /\ ~StatusHas(W_mqAwl) /\ ~StatusHas(W_mrAqb) /\ ~StatusHas(W_mshrf)
    /\ EntersSusp
    /\ status_out[1] = ST_REOPENED

----------------------------------------------------------------------------
(* Runs of app.py through fill_ppt: the main table of the slide *)

H_ADMIN == <<"A", "l", "<", "d", "A", "r", "p">>                           \* Al<dArp
H_OPEN ==   \* AlblAgAt AlmftwHp
    <<"A", "l", "b", "l", "A", "g", "A", "t", " ", "A", "l", "m", "f", "t", "w", "H", "p">>
H_REOPEN ==   \* AlmEAd ftHhA
    <<"A", "l", "m", "E", "A", "d", " ", "f", "t", "H", "h", "A">>
H_NEAR ==   \* qArb ElY tjAwz
    <<"q", "A", "r", "b", " ", "E", "l", "Y", " ", "t", "j", "A", "w", "z">>
H_LATE ==   \* Almt>xrp
    <<"A", "l", "m", "t", ">", "x", "r", "p">>
H_OTHER ==   \* mSAdr >xrY
    <<"m", "S", "A", "d", "r", " ", ">", "x", "r", "Y">>
L_TOTAL == <<"A", "l", "<", "j", "m", "A", "l", "y">>                      \* Al<jmAly

HeaderFull == <<H_ADMIN, H_OPEN, H_REOPEN, H_NEAR, H_LATE, H_OTHER>>
HeaderNoOther == <<H_ADMIN, H_OPEN, H_REOPEN, H_NEAR, H_LATE>>

\* templates: every unit of the data on one row; a unit of the data on no row;
\* the total row first, two rows that match the same unit, and a blank row
Templates ==
    {[header |-> HeaderFull, rows |-> <<L_PARKS, L_ROADS, L_TOTAL>>],
     [header |-> HeaderFull, rows |-> <<L_PARKS, L_TOTAL>>],
     [header |-> HeaderNoOther, rows |-> <<L_TOTAL, L_PARKS, L_PARKS_DEPT, <<" ">>>>]}

RowsSlide ==
    {Row("id", Str(L_PARKS), RAW_PROG_CONTRACTOR, RAW_CALL_CENTER, Plain(-HourMs), CLASS_OTHER),
     Row("id", Str(L_PARKS), RAW_REOPENED, RAW_CALL_CENTER,
         Plain(-(SlaNearTo + 1) * HourMs), CLASS_OTHER),
     Row("id", Str(L_ROADS), RAW_PROG_CONTRACTOR, RAW_CALL_CENTER,
         Plain(-SlaNearFrom * HourMs), CLASS_OTHER),
     Row("id", Str(L_PARKS_DEPT), RAW_PROG_CONTRACTOR, RAW_URBI, Plain(-HourMs), CLASS_OTHER),
     Row("id", Str(L_ROADS), RAW_REOPENED, RAW_URBI, Plain(-HourMs), CLASS_OTHER)}

InitSlide ==
    /\ NormIdle
    /\ MatchIdle
    /\ StatusIdle
    /\ xls \in SheetsOf({LayoutPlain}, RowsSlide)
    /\ closed_ts = 0
    /\ pc = "uploaded"
    /\ excel_out = NoOut
    /\ ppt_out = NoOut
    /\ main_table \in Templates
    /\ slide_out = <<>>

\* fill_ppt, as far as the main table and the totals handed to the placeholders
FillPpt ==
    /\ pc = "ppt"
    /\ ~ppt_out.raised
    /\ slide_out' = <<_fill_main_table(main_table, ppt_out.p_open, ppt_out.p_sla, ppt_out.p_urbi)>>
    /\ pc' = "slide"
    /\ UNCHANGED <<norm_in, norm_out, xls, closed_ts, excel_out, ppt_out,
                   admin_in_slide, all_admins, match_done, matches,
                   raw_status, status_out, main_table>>

NextSlide == Build \/ GetPivotsForPpt \/ FillPpt

SpecSlide == InitSlide /\ [][NextSlide]_vars

\* the unit rows of a pivot, the total row apart
UnitsOf(df) == DOMAIN df.data \ {TOTAL_LABEL}

\* the grand total of column col (<<name>>, or <<>> for none) over the units of df
GrandTotal(df, col) ==
    IF col = <<>> \/ frame_empty(df) THEN 0
    ELSE SumOver(UnitsOf(df), [a \in UnitsOf(df) |-> df.data[a][col[1]]])

\* the grand total of all columns of df over its units
GrandTotalAll(df) ==
    IF frame_empty(df) THEN 0
    ELSE SumOver(UnitsOf(df), [a \in UnitsOf(df) |-> series_sum(df.data[a])])

\* the value the total row holds in the column of metric k, when it has one
TotalCellIs(k, v) ==
    LET out == slide_out[1] IN
    out.colmap[k] # 0 => out.cells[out.total_row_idx][out.colmap[k]] = v

\* C13 as stated: every metric written to the total row of the main table is
\* the grand total of that metric over all units of the pivots, whether or
\* not each unit is matched by exactly one template row.
C13_TotalRowGrandTotals ==
    (pc = "slide" /\ slide_out[1].total_row_idx # 0) =>
        /\ TotalCellIs("reopen", GrandTotal(ppt_out.p_open, <<ST_REOPENED>>))
        /\ TotalCellIs("open", GrandTotalAll(ppt_out.p_open)
                                   - GrandTotal(ppt_out.p_open, <<ST_REOPENED>>))
        /\ TotalCellIs("near", GrandTotal(ppt_out.p_sla, <<SLA_NEAR>>))
        /\ TotalCellIs("late", GrandTotal(ppt_out.p_sla, <<SLA_LATE>>))
        /\ TotalCellIs("other", GrandTotalAll(ppt_out.p_urbi))

----------------------------------------------------------------------------
(* Properties of the aggregator: which survivors the pivots count *)

\* the survivors of o, among those at the positions S, whose field by is cat
SurvivorsWith(o, S, by, cat) == {i \in S : o.df_all[i][by] = cat}

\* the sum of the total row of a count matrix
TotalRowSum(f) == series_sum(f.data[TOTAL_LABEL])

\* C14 as stated: every surviving record adds exactly 1 to the cell of its
\* unit and canonical status and 1 to the cell of its unit and SLA bucket, so
\* the total rows of the status pivot and of the SLA pivot each sum to the
\* number of surviving records, whatever their canonical source.
C14_EverySurvivorCounted ==
    \A o \in Outs : ~o.raised =>
        /\ TotalRowSum(o.p_open) = Len(o.df_all)
        /\ TotalRowSum(o.p_sla) = Len(o.df_all)

\* C14, amended: the status pivot and the SLA pivot count the surviving
\* records whose canonical source is not Urbi and that have a unit and an
\* identifier: each adds exactly 1 to the total row at its canonical status
\* and at its SLA bucket, and to the row of its unit when the unit is not
\* labelled like the total row; the total rows each sum to the number of
\* these records. Surviving Urbi records add nothing to either pivot and are
\* counted in the channel pivot.
C14_NonUrbiSurvivorsCounted ==
    \A o \in Outs : ~o.raised =>
        LET counted(src) ==
                {i \in DOMAIN o.df_all :
                    /\ (o.df_all[i].source = SRC_URBI) = src
                    /\ o.df_all[i].admin.isstr
                    /\ o.df_all[i].id # "NA"}
            of_unit(S, l) == {i \in S : o.df_all[i].admin = Str(l)}
        IN  /\ TotalRowSum(o.p_open) = Cardinality(counted(FALSE))
            /\ TotalRowSum(o.p_sla) = Cardinality(counted(FALSE))
            /\ \A c \in Range(STATUS_CANON) :
                  /\ o.p_open.data[TOTAL_LABEL][c]
                        = Cardinality(SurvivorsWith(o, counted(FALSE), "status_canon", c))
                  /\ \A l \in UnitRows(o.p_open) :
                        o.p_open.data[l][c]
                            = Cardinality(SurvivorsWith(o, of_unit(counted(FALSE), l),
                                                        "status_canon", c))
            /\ \A c \in Range(SLA_ORDER) :
                  /\ o.p_sla.data[TOTAL_LABEL][c]
                        = Cardinality(SurvivorsWith(o, counted(FALSE), "sla", c))
                  /\ \A l \in UnitRows(o.p_sla) :
                        o.p_sla.data[l][c]
                            = Cardinality(SurvivorsWith(o, of_unit(counted(FALSE), l), "sla", c))
            /\ o.p_urbi.kind = "pivot" /\ o.p_urbi.columns # <<>>
                  => TotalRowSum(o.p_urbi) = Cardinality(counted(TRUE))

\* two survivors, one from Urbi: the first two pivots count one record, the
\* channel pivot the other
C14_Witness ==
    /\ pc = "ppt"
    /\ Len(ppt_out.df_all) = 2
    /\ ppt_out.df_all[1].source = SRC_URBI
    /\ ppt_out.df_all[2].source = SRC_CALL_CENTERS
    /\ TotalRowSum(ppt_out.p_open) = 1
    /\ TotalRowSum(excel_out.p_sla) = 1
    /\ TotalRowSum(ppt_out.p_urbi) = 1

----------------------------------------------------------------------------
(* Runs of app.py over the orderings of the input columns *)

RequiredColumns == <<COL_ID, COL_ADMIN, COL_STATUS, COL_CREATED, COL_SOURCE>>

\* the columns of order from position i on, with the columns extra put
\* straight after the creation-date column
RECURSIVE layout_from(_, _, _)
layout_from(order, i, extra) ==
    IF i > Len(order) THEN <<>>
    ELSE (IF order[i] = COL_CREATED THEN <<COL_CREATED>> \o extra ELSE <<order[i]>>)
         \o layout_from(order, i + 1, extra)

\* every ordering of the required columns, bare and with three disposable
\* columns after the creation date
LayoutsAnyOrder ==
    {layout_from([i \in DOMAIN RequiredColumns |-> RequiredColumns[p[i]]], 1, extra) :
        p \in Permutations(DOMAIN RequiredColumns),
        extra \in {<<>>, <<"x1", "x2", "x3">>}}

RowsLayout ==
    {Row("id", Str(ADMIN_PARKS), RAW_PROG_CONTRACTOR, RAW_CALL_CENTER, Plain(-HourMs),
         CLASS_OTHER)}

InitLayout ==
    /\ NormIdle
    /\ MatchIdle
    /\ StatusIdle
    /\ SlideIdle
    /\ xls \in SheetsOf(LayoutsAnyOrder, RowsLayout)
    /\ closed_ts = 0
    /\ pc = "uploaded"
    /\ excel_out = NoOut
    /\ ppt_out = NoOut

SpecLayout == InitLayout /\ [][NextPipe]_vars

\* C15 as stated: for every ordering of the input columns the trimming keeps
\* the identifier, unit, status, source and creation-date columns, and the
\* later steps read them without failing.
C15_RequiredColumnsKept ==
    pc \in {"excel", "ppt"} =>
        /\ ~excel_out.raised
        /\ ~trim_raises(xls.columns)
        /\ Range(RequiredColumns) \subseteq Range(trim_columns(xls.columns))

====
